---- MODULE Spec2Model ----
(***************************************************************************)
(* A model of MinDF (src/__init__.py): a column store built from named     *)
(* equal-length sequences, its accessors, its two renderings and its CSV    *)
(* export and import.                                                       *)
(*                                                                          *)
(* Text is a sequence of one-character strings, so that str(), join,        *)
(* split, strip and float() are computed character by character.  The box  *)
(* drawing characters are written by their code points ("U+2502").          *)
(* A Python value is a record tagged with its type:                         *)
(*   [t |-> "int", i |-> 42]      [t |-> "str", s |-> <<"A", "l">>]         *)
(*   [t |-> "float", n |-> 35, d |-> 1]   (the number n / 10^d, with no     *)
(*                                          trailing zero in n when d > 0)  *)
(* An ordered dict is a sequence of [k |-> key, v |-> value] records with   *)
(* distinct keys, in insertion order.                                       *)
(***************************************************************************)
EXTENDS Integers, Sequences, FiniteSets, TLC

\* The largest number of cells of a constructor argument.
MaxCells == 3

\* The largest number of cells of a constructor argument of the CSV runs.
MaxCsvCells == 2

----------------------------------------------------------------------------
\* Python values and outcomes

IntCell(i) == [t |-> "int", i |-> i]

FloatCell(n, d) == [t |-> "float", n |-> n, d |-> d]

StrCell(s) == [t |-> "str", s |-> s]

None == [t |-> "NoneType"]

\* A call either returns a value or raises an exception.
Ok(value) == [kind |-> "ok", value |-> value]

Raise(exc, msg) == [kind |-> "raise", exc |-> exc, msg |-> msg]

Abs(i) == IF i < 0 THEN -i ELSE i

Max(a, b) == IF a > b THEN a ELSE b

\* list[index] with Python's negative indices; whether it is in range
InRange(values, index) == -Len(values) <= index /\ index < Len(values)

PyIndex(values, index) ==
    IF index < 0 THEN values[Len(values) + index + 1] ELSE values[index + 1]

\* The keys of an ordered dict, in order
Keys(d) == [c \in 1..Len(d) |-> d[c].k]

KeySet(d) == {d[c].k : c \in 1..Len(d)}

\* d[key] for a key of d
DictGet(d, key) == d[CHOOSE c \in 1..Len(d) : d[c].k = key].v

\* d[key] = value: a new key goes last, a known key keeps its place
DictSet(d, key, value) ==
    IF key \in KeySet(d)
    THEN [c \in 1..Len(d) |-> IF d[c].k = key THEN [k |-> key, v |-> value] ELSE d[c]]
    ELSE Append(d, [k |-> key, v |-> value])

----------------------------------------------------------------------------
\* Text

Digits == <<"0", "1", "2", "3", "4", "5", "6", "7", "8", "9">>

DigitSet == {Digits[j] : j \in 1..Len(Digits)}

DigitValue(ch) == (CHOOSE j \in 1..Len(Digits) : Digits[j] = ch) - 1

\* The characters str.strip() removes, among those of the model
Whitespace == {" ", "\n"}

RECURSIVE Pow10(_)
Pow10(d) == IF d = 0 THEN 1 ELSE 10 * Pow10(d - 1)

RECURSIVE StrNat(_)
StrNat(n) ==
    IF n < 10 THEN <<Digits[n + 1]>>
    ELSE StrNat(n \div 10) \o <<Digits[(n % 10) + 1]>>

StrInt(i) == IF i < 0 THEN <<"-">> \o StrNat(-i) ELSE StrNat(i)

RECURSIVE ZeroPad(_, _)
ZeroPad(s, width) == IF Len(s) >= width THEN s ELSE ZeroPad(<<"0">> \o s, width)

\* str() of a float: the shortest decimal that reads back as the same number,
\* always with a fractional part (4.0 is "4.0")
StrFloat(n, d) ==
    IF d = 0 THEN StrInt(n) \o <<".", "0">>
    ELSE (IF n < 0 THEN <<"-">> ELSE <<>>)
         \o StrNat(Abs(n) \div Pow10(d)) \o <<".">>
         \o ZeroPad(StrNat(Abs(n) % Pow10(d)), d)

\* str(val)
Str(val) ==
    CASE val.t = "str" -> val.s
      [] val.t = "int" -> StrInt(val.i)
      [] val.t = "float" -> StrFloat(val.n, val.d)
      [] val.t = "NoneType" -> <<"N", "o", "n", "e">>

RECURSIVE LStrip(_)
LStrip(s) == IF s # <<>> /\ Head(s) \in Whitespace THEN LStrip(Tail(s)) ELSE s

RECURSIVE RStrip(_)
RStrip(s) ==
    IF s # <<>> /\ s[Len(s)] \in Whitespace THEN RStrip(SubSeq(s, 1, Len(s) - 1)) ELSE s

\* s.strip()
Strip(s) == RStrip(LStrip(s))

\* sep.join(parts)
RECURSIVE Join(_, _)
Join(parts, sep) ==
    IF parts = <<>> THEN <<>>
    ELSE IF Len(parts) = 1 THEN parts[1]
    ELSE parts[1] \o sep \o Join(Tail(parts), sep)

\* s.split(ch): a text without ch is one field, the empty text included
RECURSIVE Split(_, _)
Split(s, ch) ==
    IF \A j \in 1..Len(s) : s[j] # ch THEN <<s>>
    ELSE LET p == CHOOSE j \in 1..Len(s) :
                      s[j] = ch /\ \A q \in 1..(j - 1) : s[q] # ch
         IN  <<SubSeq(s, 1, p - 1)>> \o Split(SubSeq(s, p + 1, Len(s)), ch)

\* The lines a text file yields when iterated: each keeps its "\n"; a last
\* line without one is yielded as it is
RECURSIVE FileLines(_)
FileLines(content) ==
    IF content = <<>> THEN <<>>
    ELSE IF \A j \in 1..Len(content) : content[j] # "\n" THEN <<content>>
    ELSE LET p == CHOOSE j \in 1..Len(content) :
                      content[j] = "\n" /\ \A q \in 1..(j - 1) : content[q] # "\n"
         IN  <<SubSeq(content, 1, p)>> \o FileLines(SubSeq(content, p + 1, Len(content)))

\* s.ljust(width): padded with spaces on the right, never cut
RECURSIVE Ljust(_, _)
Ljust(s, width) == IF Len(s) >= width THEN s ELSE Ljust(s \o <<" ">>, width)

\* ch * n
RECURSIVE Repeat(_, _)
Repeat(ch, n) == IF n <= 0 THEN <<>> ELSE <<ch>> \o Repeat(ch, n - 1)

RECURSIVE DigitsValue(_)
DigitsValue(s) ==
    IF s = <<>> THEN 0 ELSE 10 * DigitsValue(SubSeq(s, 1, Len(s) - 1)) + DigitValue(s[Len(s)])

RECURSIVE Normal(_, _)
Normal(n, d) ==
    IF d > 0 /\ n % 10 = 0 THEN Normal(n \div 10, d - 1) ELSE [n |-> n, d |-> d]

\* float(text), for texts of digits, ".", signs, blanks and letters that spell
\* no number: surrounding whitespace is ignored, then an optional sign and
\* digits with at most one "." and at least one digit
ParseFloat(text) ==
    LET s == Strip(text)
        signed == s # <<>> /\ Head(s) \in {"-", "+"}
        body == IF signed THEN Tail(s) ELSE s
        dots == {j \in 1..Len(body) : body[j] = "."}
        whole == IF dots = {} THEN body
                 ELSE SubSeq(body, 1, (CHOOSE j \in dots : TRUE) - 1)
        frac == IF dots = {} THEN <<>>
                ELSE SubSeq(body, (CHOOSE j \in dots : TRUE) + 1, Len(body))
        wellFormed == /\ Cardinality(dots) <= 1
                      /\ \A j \in 1..Len(body) : body[j] \in DigitSet \cup {"."}
                      /\ Len(whole) + Len(frac) > 0
        magnitude == DigitsValue(whole \o frac)
        value == Normal(IF signed /\ Head(s) = "-" THEN -magnitude ELSE magnitude,
                        Len(frac))
    IN  IF wellFormed THEN [ok |-> TRUE, n |-> value.n, d |-> value.d]
        ELSE [ok |-> FALSE]

----------------------------------------------------------------------------
\* class MinDF.  An object is [data |-> ordered dict, _length |-> number].

NoStore == [none |-> TRUE]

\* Mismatch with the loop running to its end: the last such column
MismatchLast(kwargs, expected_length) ==
    LET bad == {c \in 1..Len(kwargs) : Len(kwargs[c].v) # expected_length}
    IN  IF bad = {} THEN 0 ELSE CHOOSE c \in bad : \A b \in bad : c >= b

\* Mismatch without the check
MismatchNever(kwargs, expected_length) == 0

\* The first column, in insertion order, whose length is not expected_length
\* (the column at which the checking loop of __init__ raises); 0 if none
Mismatch(kwargs, expected_length) ==
    LET bad == {c \in 1..Len(kwargs) : Len(kwargs[c].v) # expected_length}
    IN  IF bad = {} THEN 0 ELSE CHOOSE c \in bad : \A b \in bad : c <= b

\* StoredLength taking len(kwargs), the number of columns
StoredLengthOfKeys(kwargs) == Len(kwargs)

\* The value __init__ stores in self._length
StoredLength(kwargs) ==
    LET lengths == {Len(kwargs[c].v) : c \in 1..Len(kwargs)}
    IN  IF lengths # {} THEN CHOOSE n \in lengths : TRUE ELSE 0

\* MinDF(**kwargs): the new object, or the ValueError of a length mismatch
__init__(kwargs) ==
    IF kwargs = <<>> THEN Ok([data |-> <<>>, _length |-> 0])
    ELSE LET first_key == kwargs[1].k
             expected_length == Len(kwargs[1].v)
             c == Mismatch(kwargs, expected_length)
         IN  IF c # 0
             THEN Raise("ValueError",
                        [what |-> "Length mismatch",
                         first_key |-> first_key,
                         expected_length |-> expected_length,
                         key |-> kwargs[c].k,
                         length |-> Len(kwargs[c].v)])
             ELSE Ok([data |-> kwargs, _length |-> StoredLength(kwargs)])

__len__(self) == Raise("TypeError", "can't use len() with a MinDF object")

count_rows(self) == self._length

count_cols(self) == Len(self.data)

keys(self) == Keys(self.data)

col(self, colname) ==
    IF colname \notin KeySet(self.data)
    THEN Raise("ValueError", [what |-> "is not a column name", colname |-> colname])
    ELSE Ok(DictGet(self.data, colname))

\* The test of row() that rejects an index
OutOfRange(index, length) == Abs(index) >= length

row(self, index) ==
    IF OutOfRange(index, self._length)
    THEN Raise("ValueError",
               [what |-> "is out of range", index |-> index, rows |-> self._length])
    ELSE IF \E c \in 1..Len(self.data) : ~InRange(self.data[c].v, index)
    THEN Raise("IndexError", "list index out of range")
    ELSE Ok([c \in 1..Len(self.data) |->
                [k |-> self.data[c].k, v |-> PyIndex(self.data[c].v, index)]])

\* self[key]: the key is a Python value
__getitem__(self, key) ==
    IF key.t = "str"
    THEN IF key.s \in KeySet(self.data)
         THEN Ok(DictGet(self.data, key.s))
         ELSE Raise("KeyError", key.s)
    ELSE IF key.t = "int" THEN row(self, key.i)
    ELSE Raise("TypeError", [what |-> "Invalid key type", type |-> key.t])

----------------------------------------------------------------------------
\* Rendering

BoxV == "U+2502"
BoxH == "U+2500"
BoxTopLeft == "U+250C"
BoxTopMid == "U+252C"
BoxTopRight == "U+2510"
BoxMidLeft == "U+251C"
BoxMidMid == "U+253C"
BoxMidRight == "U+2524"
BoxBottomLeft == "U+2514"
BoxBottomMid == "U+2534"
BoxBottomRight == "U+2518"

RECURSIVE MaxWidth(_, _)
MaxWidth(max_width, values) ==
    IF values = <<>> THEN max_width
    ELSE MaxWidth(Max(max_width, Len(Str(Head(values)))), Tail(values))

\* _get_column_widths without the loop over the values
WidthsOfNames(self) ==
    [c \in 1..Len(self.data) |-> [k |-> self.data[c].k, v |-> Len(self.data[c].k)]]

\* widths[col] for every column: a dict in column order
_get_column_widths(self) ==
    [c \in 1..Len(self.data) |->
        [k |-> self.data[c].k, v |-> MaxWidth(Len(self.data[c].k), self.data[c].v)]]

\* zip(self.data.keys(), values) stops at the shorter of the two
_format_row(self, values, widths) ==
    LET n == IF Len(values) < Len(self.data) THEN Len(values) ELSE Len(self.data)
    IN  <<BoxV, " ">>
        \o Join([c \in 1..n |-> Ljust(Str(values[c]), DictGet(widths, self.data[c].k))],
                <<" ", BoxV, " ">>)
        \o <<" ", BoxV>>

_format_header(self, widths) ==
    <<BoxV, " ">>
    \o Join([c \in 1..Len(self.data) |->
                Ljust(self.data[c].k, DictGet(widths, self.data[c].k))],
            <<" ", BoxV, " ">>)
    \o <<" ", BoxV>>

\* The three rules differ in their end and junction characters only
Rule(self, widths, left, mid, right) ==
    <<left, BoxH>>
    \o Join([c \in 1..Len(self.data) |-> Repeat(BoxH, DictGet(widths, self.data[c].k))],
            <<BoxH, mid, BoxH>>)
    \o <<BoxH, right>>

_format_separator(self, widths) == Rule(self, widths, BoxMidLeft, BoxMidMid, BoxMidRight)

_format_top_border(self, widths) == Rule(self, widths, BoxTopLeft, BoxTopMid, BoxTopRight)

_format_bottom_border(self, widths) ==
    Rule(self, widths, BoxBottomLeft, BoxBottomMid, BoxBottomRight)

EmptyMessage == <<"E", "m", "p", "t", "y", " ", "M", "i", "n", "D", "F">>

\* str(df): the lines joined by "\n"
__str__(self) ==
    IF self.data = <<>> THEN EmptyMessage
    ELSE LET widths == _get_column_widths(self)
             rows == [r \in 1..count_rows(self) |->
                         _format_row(self,
                                     [c \in 1..Len(self.data) |-> self.data[c].v[r]],
                                     widths)]
         IN  Join(<<_format_top_border(self, widths),
                    _format_header(self, widths),
                    _format_separator(self, widths)>>
                  \o rows
                  \o <<_format_bottom_border(self, widths)>>,
                  <<"\n">>)

\* repr() of a value: a text is quoted, with its line breaks escaped
ReprValue(val) ==
    IF val.t = "str"
    THEN <<"'">>
         \o Join([j \in 1..Len(val.s) |->
                     IF val.s[j] = "\n" THEN <<"\\", "n">> ELSE <<val.s[j]>>], <<>>)
         \o <<"'">>
    ELSE Str(val)

ReprList(values) ==
    <<"[">> \o Join([j \in 1..Len(values) |-> ReprValue(values[j])], <<",", " ">>) \o <<"]">>

__repr__(self) ==
    IF self.data = <<>> THEN <<"M", "i", "n", "D", "F", "(", ")">>
    ELSE <<"M", "i", "n", "D", "F", "(">>
         \o Join([c \in 1..Len(self.data) |->
                     self.data[c].k \o <<"=">> \o ReprList(self.data[c].v)],
                 <<",", " ">>)
         \o <<")">>

----------------------------------------------------------------------------
\* CSV import: the pieces of from_csv

\* columns = {col: [] for col in header}: a repeated name is one column
RECURSIVE EmptyColumns(_, _)
EmptyColumns(columns, header) ==
    IF header = <<>> THEN columns
    ELSE EmptyColumns(DictSet(columns, Head(header), <<>>), Tail(header))

\* Convert without the is_integer() step: every number stays a float
ConvertToFloat(val) ==
    LET parsed == ParseFloat(val)
    IN  IF ~parsed.ok THEN StrCell(val) ELSE FloatCell(parsed.n, parsed.d)

\* Convert without the conversion: every field stays text
ConvertNothing(val) == StrCell(val)

\* The value from_csv stores for a field: a number if float() reads the
\* field, an int if that number is whole, else the field itself
Convert(val) ==
    LET parsed == ParseFloat(val)
    IN  IF ~parsed.ok THEN StrCell(val)
        ELSE IF parsed.d = 0 THEN IntCell(parsed.n)
        ELSE FloatCell(parsed.n, parsed.d)

\* for col, val in zip(header, values): columns[col].append(...)
RECURSIVE AppendValues(_, _, _)
AppendValues(columns, header, values) ==
    IF header = <<>> \/ values = <<>> THEN columns
    ELSE AppendValues(
             DictSet(columns, Head(header),
                     Append(DictGet(columns, Head(header)), Convert(Head(values)))),
             Tail(header), Tail(values))

\* The line to_csv writes for the header, and for row r (counted from 1)
HeaderLine(self) == Join(keys(self), <<",">>) \o <<"\n">>

RowLine(self, r) ==
    Join([c \in 1..Len(self.data) |-> Str(self.data[c].v[r])], <<",">>) \o <<"\n">>

\* WithExit of a file opened without a with block and never closed
WithExitLeak(handle) == handle

\* Leaving a with block closes the file, however the block is left
WithExit(handle) == "closed"

----------------------------------------------------------------------------
\* The inputs

ColumnNames == {<<"a">>, <<"b", "b">>}

\* The names of the runs of the constructor alone
MoreColumnNames == ColumnNames \cup {<<"c">>}

\* A name no constructor argument has
OtherName == <<"z">>

CellValues == {IntCell(7), StrCell(<<"A", "l">>)}

CsvCellValues ==
    {IntCell(42), IntCell(-7), FloatCell(35, 1), FloatCell(4, 0),
     StrCell(<<"A", "l">>), StrCell(<<"4", "2">>), StrCell(<<"x", ",", "y">>),
     StrCell(<<" ", "A">>), StrCell(<<>>)}

ValueLists(cells, n) == UNION {[1..m -> cells] : m \in 0..n}

\* The ordered mappings of distinct names to lists with at most budget cells
RECURSIVE Mappings(_, _, _)
Mappings(names, cells, budget) ==
    {<<>>} \cup
    UNION {UNION {{<<[k |-> name, v |-> vals]>> \o rest :
                       rest \in Mappings(names \ {name}, cells, budget - Len(vals))} :
                  vals \in ValueLists(cells, budget)} :
           name \in names}

Indices == -(MaxCells + 1)..(MaxCells + 1)

GetItemKeys ==
    {StrCell(name) : name \in ColumnNames \cup {OtherName}}
    \cup {IntCell(index) : index \in {-1, 0, 1}}
    \cup {FloatCell(15, 1), None}

Absent == [exists |-> FALSE, content |-> <<>>]

File(content) == [exists |-> TRUE, content |-> content]

\* Files found on disk: well formed, ragged, ragged under a repeated header
\* name, with a line longer than the header, and empty
RawFiles ==
    {File(<<"a", ",", "b", "b", "\n", "1", ",", "2", "\n">>),
     File(<<"a", ",", "b", "b", "\n", "1", ",", "2", "\n", "3", "\n">>),
     File(<<"a", ",", "b", "b", ",", "a", "\n", "1", ",", "2", "\n">>),
     File(<<"a", ",", "b", "b", "\n", "1", ",", "2", ",", "3", "\n", "A", "l", "\n">>),
     File(<<"a", "\n", "1", "\n", "\n">>),
     File(<<>>)}

----------------------------------------------------------------------------
\* The program: one store variable df, one file, calls made one at a time

VARIABLES
    kwargs,     \* the argument the program constructs its store from
    df,         \* the store, or NoStore
    built,      \* history: df.data as it was when df was constructed
    fs,         \* the file the CSV calls name
    fh,         \* the file handle of the call in progress: "open" or "closed"
    exported,   \* history: the data of the store whose to_csv last returned
    pc,         \* "idle", or the place the CSV call in progress has reached
    i,          \* to_csv: the row to write next
    pending,    \* from_csv: the lines not read yet
    header,     \* from_csv: header
    columns,    \* from_csv: columns
    result      \* the last call: [op, arg, out]

vars == <<kwargs, df, built, fs, fh, exported, pc, i, pending, header, columns, result>>

locals == <<i, pending, header, columns>>

Pending == [kind |-> "pending"]

NoExport == [done |-> FALSE, data |-> <<>>]

Start ==
    /\ df = NoStore
    /\ built = <<>>
    /\ fh = "closed"
    /\ exported = NoExport
    /\ pc = "idle"
    /\ i = 0
    /\ pending = <<>>
    /\ header = <<>>
    /\ columns = <<>>
    /\ result = [op |-> "start", arg |-> None, out |-> Ok(None)]

\* The program starts either from a mapping, with no file on disk yet, or
\* from a file found on disk, with the empty mapping
Init ==
    /\ Start
    /\ fs \in {Absent} \cup RawFiles
    /\ IF fs = Absent THEN kwargs \in Mappings(ColumnNames, CellValues, MaxCells)
       ELSE kwargs = <<>>

InitConstruct ==
    /\ Start
    /\ fs = Absent
    /\ kwargs \in Mappings(MoreColumnNames, CellValues, MaxCells)

InitCsv ==
    /\ Start
    /\ fs \in {Absent} \cup RawFiles
    /\ IF fs = Absent THEN kwargs \in Mappings(ColumnNames, CsvCellValues, MaxCsvCells)
       ELSE kwargs = <<>>

\* An accessor returns at once and touches nothing but its result
Returns(op, arg, out) ==
    /\ result' = [op |-> op, arg |-> arg, out |-> out]
    /\ UNCHANGED <<kwargs, df, built, fs, fh, exported, pc, locals>>

Callable == pc = "idle" /\ df # NoStore

\* df = MinDF(**kwargs)
Construct ==
    /\ pc = "idle"
    /\ df = NoStore
    /\ LET out == __init__(kwargs)
       IN  /\ df' = IF out.kind = "ok" THEN out.value ELSE df
           /\ built' = IF out.kind = "ok" THEN out.value.data ELSE built
           /\ result' = [op |-> "__init__", arg |-> kwargs,
                         out |-> IF out.kind = "ok" THEN Ok(None) ELSE out]
    /\ UNCHANGED <<kwargs, fs, fh, exported, pc, locals>>

CallLen == Callable /\ Returns("__len__", None, __len__(df))

CallCountRows == Callable /\ Returns("count_rows", None, Ok(count_rows(df)))

CallCountCols == Callable /\ Returns("count_cols", None, Ok(count_cols(df)))

CallKeys == Callable /\ Returns("keys", None, Ok(keys(df)))

CallCol ==
    /\ Callable
    /\ \E colname \in ColumnNames \cup {OtherName} : Returns("col", colname, col(df, colname))

CallRow ==
    /\ Callable
    /\ \E index \in Indices : Returns("row", index, row(df, index))

CallGetItem ==
    /\ Callable
    /\ \E key \in GetItemKeys : Returns("__getitem__", key, __getitem__(df, key))

CallStr == Callable /\ Returns("__str__", None, Ok(__str__(df)))

CallRepr == Callable /\ Returns("__repr__", None, Ok(__repr__(df)))

----------------------------------------------------------------------------
\* df.to_csv(filename), a step at a time

Leave(op, out) ==
    /\ pc' = "idle"
    /\ i' = 0
    /\ pending' = <<>>
    /\ header' = <<>>
    /\ columns' = <<>>
    /\ result' = [op |-> op, arg |-> None, out |-> out]

\* The call: a store without columns returns at once; otherwise the file is
\* opened for writing, which empties it
ToCsvCall ==
    /\ Callable
    /\ IF df.data = <<>>
       THEN /\ Leave("to_csv", Ok(None))
            /\ exported' = [done |-> TRUE, data |-> df.data]
            /\ UNCHANGED <<fs, fh>>
       ELSE /\ fs' = File(<<>>)
            /\ fh' = "open"
            /\ exported' = NoExport
            /\ pc' = "to_csv_header"
            /\ result' = [op |-> "to_csv", arg |-> None, out |-> Pending]
            /\ UNCHANGED locals
    /\ UNCHANGED <<kwargs, df, built>>

\* open() raises: no file is opened and the disk is left as it was
ToCsvOpenFails ==
    /\ Callable
    /\ df.data # <<>>
    /\ Leave("to_csv", Raise("OSError", "open"))
    /\ UNCHANGED <<kwargs, df, built, fs, fh, exported>>

ToCsvHeader ==
    /\ pc = "to_csv_header"
    /\ fs' = File(fs.content \o HeaderLine(df))
    /\ pc' = "to_csv_rows"
    /\ i' = 0
    /\ UNCHANGED <<kwargs, df, built, fh, exported, pending, header, columns,
                   result>>

ToCsvRow ==
    /\ pc = "to_csv_rows"
    /\ i < count_rows(df)
    /\ fs' = File(fs.content \o RowLine(df, i + 1))
    /\ i' = i + 1
    /\ UNCHANGED <<kwargs, df, built, fh, exported, pc, pending, header, columns,
                   result>>

\* The loop is over: the with block is left and None returned
ToCsvExit ==
    /\ pc = "to_csv_rows"
    /\ i = count_rows(df)
    /\ fh' = WithExit(fh)
    /\ exported' = [done |-> TRUE, data |-> df.data]
    /\ Leave("to_csv", Ok(None))
    /\ UNCHANGED <<kwargs, df, built, fs>>

\* A write raises: the with block is left by the exception, with what was
\* written before on disk
ToCsvWriteFails ==
    /\ pc \in {"to_csv_header", "to_csv_rows"}
    /\ pc = "to_csv_rows" => i < count_rows(df)
    /\ fh' = WithExit(fh)
    /\ Leave("to_csv", Raise("OSError", "write"))
    /\ UNCHANGED <<kwargs, df, built, fs, exported>>

----------------------------------------------------------------------------
\* df = MinDF.from_csv(filename), a step at a time

\* The call: open() raises for a file that is not there
FromCsvCall ==
    /\ pc = "idle"
    /\ IF ~fs.exists
       THEN /\ Leave("from_csv", Raise("FileNotFoundError", "open"))
            /\ UNCHANGED fh
       ELSE /\ fh' = "open"
            /\ pc' = "from_csv_header"
            /\ pending' = FileLines(fs.content)
            /\ result' = [op |-> "from_csv", arg |-> None, out |-> Pending]
            /\ UNCHANGED <<i, header, columns>>
    /\ UNCHANGED <<kwargs, df, built, fs, exported>>

\* header = next(f).strip().split(','), which raises StopIteration at the end
\* of the file, and the empty columns
FromCsvHeader ==
    /\ pc = "from_csv_header"
    /\ IF pending = <<>>
       THEN /\ fh' = WithExit(fh)
            /\ Leave("from_csv", Raise("StopIteration", "next"))
       ELSE /\ header' = Split(Strip(Head(pending)), ",")
            /\ columns' = EmptyColumns(<<>>, Split(Strip(Head(pending)), ","))
            /\ pending' = Tail(pending)
            /\ pc' = "from_csv_lines"
            /\ UNCHANGED <<fh, i, result>>
    /\ UNCHANGED <<kwargs, df, built, fs, exported>>

\* One turn of the loop over the lines
FromCsvLine ==
    /\ pc = "from_csv_lines"
    /\ pending # <<>>
    /\ columns' = AppendValues(columns, header, Split(Strip(Head(pending)), ","))
    /\ pending' = Tail(pending)
    /\ UNCHANGED <<kwargs, df, built, fs, fh, exported, pc, i, header, result>>

\* The loop is over: the with block is left, the columns are still to be
\* handed to the constructor
FromCsvExit ==
    /\ pc = "from_csv_lines"
    /\ pending = <<>>
    /\ fh' = WithExit(fh)
    /\ pc' = "from_csv_construct"
    /\ UNCHANGED <<kwargs, df, built, fs, exported, locals, result>>

\* return cls(**columns)
FromCsvConstruct ==
    /\ pc = "from_csv_construct"
    /\ LET out == __init__(columns)
       IN  /\ df' = IF out.kind = "ok" THEN out.value ELSE df
           /\ built' = IF out.kind = "ok" THEN out.value.data ELSE built
           /\ Leave("from_csv", IF out.kind = "ok" THEN Ok(None) ELSE out)
    /\ UNCHANGED <<kwargs, fs, fh, exported>>

\* A read raises: the with block is left by the exception
FromCsvReadFails ==
    /\ pc \in {"from_csv_header", "from_csv_lines"}
    /\ pending # <<>>
    /\ fh' = WithExit(fh)
    /\ Leave("from_csv", Raise("OSError", "read"))
    /\ UNCHANGED <<kwargs, df, built, fs, exported>>

----------------------------------------------------------------------------

Accessors ==
    \/ CallLen
    \/ CallCountRows
    \/ CallCountCols
    \/ CallKeys
    \/ CallCol
    \/ CallRow
    \/ CallGetItem
    \/ CallStr
    \/ CallRepr

ToCsv == ToCsvCall \/ ToCsvHeader \/ ToCsvRow \/ ToCsvExit

FromCsv == FromCsvCall \/ FromCsvHeader \/ FromCsvLine \/ FromCsvExit \/ FromCsvConstruct

IOFails == ToCsvOpenFails \/ ToCsvWriteFails \/ FromCsvReadFails

Next == Construct \/ Accessors \/ ToCsv \/ FromCsv \/ IOFails

\* The program on the data of its caller, on a disk that may fail
Spec == Init /\ [][Next]_vars

\* The constructor alone, on up to three columns
SpecConstruct == InitConstruct /\ [][Construct]_vars

NextCsv == Construct \/ ToCsv \/ FromCsv

\* Export and import alone, on richer cells and a disk that does not fail
SpecCsv == InitCsv /\ [][NextCsv]_vars

----------------------------------------------------------------------------
\* Construction

LengthsDiffer(mapping) ==
    \E a, b \in 1..Len(mapping) : Len(mapping[a].v) # Len(mapping[b].v)

\* C1: the constructor raises ValueError exactly when two of the sequences
\* differ in length; the error then names the first column and its length and
\* the first column of another length and that length, and there is no store;
\* otherwise the store has the common length as its row count (0 without
\* columns) and as many columns as the mapping has keys.
C1_Construction ==
    result.op = "__init__" =>
        /\ result.out.kind = "raise" <=> LengthsDiffer(kwargs)
        /\ LengthsDiffer(kwargs) =>
              LET offending == {c \in 1..Len(kwargs) : Len(kwargs[c].v) # Len(kwargs[1].v)}
                  c == CHOOSE x \in offending : \A y \in offending : x <= y
              IN  /\ result.out.exc = "ValueError"
                  /\ result.out.msg.first_key = kwargs[1].k
                  /\ result.out.msg.expected_length = Len(kwargs[1].v)
                  /\ result.out.msg.key = kwargs[c].k
                  /\ result.out.msg.length = Len(kwargs[c].v)
                  /\ df = NoStore
        /\ ~LengthsDiffer(kwargs) =>
              /\ df # NoStore
              /\ count_cols(df) = Len(kwargs)
              /\ count_rows(df) = IF kwargs = <<>> THEN 0 ELSE Len(kwargs[1].v)
              /\ \A c \in 1..Len(kwargs) : Len(kwargs[c].v) = count_rows(df)

\* A mapping of three columns, the second and the third both of another length
\* than the first, has been refused
C1_Witness ==
    /\ result.op = "__init__"
    /\ result.out.kind = "raise"
    /\ Len(kwargs) = 3
    /\ Len(kwargs[2].v) # Len(kwargs[1].v)
    /\ Len(kwargs[3].v) # Len(kwargs[1].v)
    /\ Len(kwargs[3].v) # Len(kwargs[2].v)

\* C2: once a store is constructed, by the constructor or by from_csv, every
\* column is as long as the stored row count, and names, order and cells are
\* those of its construction, whatever calls were made since and whether they
\* returned or raised.
C2_Immutable ==
    df # NoStore =>
        /\ \A c \in 1..Len(df.data) : Len(df.data[c].v) = df._length
        /\ df.data = built

\* A store of two columns, imported from a file its export had only partly
\* written and exported again, on which an indexed access has just raised
C2_Witness ==
    /\ df # NoStore
    /\ built # kwargs
    /\ Len(df.data) = 2
    /\ df._length >= 1
    /\ exported.done
    /\ result.op = "__getitem__"
    /\ result.out.kind = "raise"

----------------------------------------------------------------------------
\* Rows and indexed access

\* C3: on a store of N >= 1 rows, row(i) for 0 <= i < N maps every column
\* name, in order, to the column's value at i; row(-1) is row(N-1); and
\* row(index) raises the out-of-range error for index >= N and index <= -(N+1).
C3_RowBounds ==
    (result.op = "row" /\ df._length >= 1) =>
        LET N == df._length
            index == result.arg
        IN  /\ (0 <= index /\ index < N) =>
                  result.out = Ok([c \in 1..Len(df.data) |->
                                      [k |-> df.data[c].k, v |-> df.data[c].v[index + 1]]])
            /\ index = -1 => result.out = row(df, N - 1)
            /\ (index >= N \/ index <= -(N + 1)) =>
                  /\ result.out.kind = "raise"
                  /\ result.out.exc = "ValueError"
                  /\ result.out.msg.what = "is out of range"

\* C4: row(index) returns for every index with -N <= index < N, and for a
\* negative one returns what row(N + index) returns.
C4_NegativeIndex ==
    (result.op = "row" /\ -df._length <= result.arg /\ result.arg < df._length) =>
        /\ result.out.kind = "ok"
        /\ result.arg < 0 => result.out = row(df, df._length + result.arg)

\* C5: df[key] has the outcome of col(key) for a text key (the same sequence,
\* or an error of the same kind), the outcome of row(key) for an integer key,
\* and raises the invalid-key-type error for a key of another type.
C5_GetItemAsAccessors ==
    result.op = "__getitem__" =>
        LET key == result.arg
        IN  IF key.t = "str"
            THEN LET named == col(df, key.s)
                 IN  /\ result.out.kind = named.kind
                     /\ named.kind = "ok" => result.out.value = named.value
                     /\ named.kind = "raise" => result.out.exc = named.exc
            ELSE IF key.t = "int" THEN result.out = row(df, key.i)
            ELSE result.out.kind = "raise" /\ result.out.exc = "TypeError"

----------------------------------------------------------------------------
\* CSV round trips

\* from_csv has returned or raised, and the last to_csv before it returned
RoundTripDone == result.op = "from_csv" /\ pc = "idle" /\ exported.done

\* The cells of a dict of columns, as <<column, row>>
Positions(data) == UNION {{<<c, r>> : r \in 1..Len(data[c].v)} : c \in 1..Len(data)}

\* An integer or a float that is not whole
IsNumber(cell) == cell.t = "int" \/ (cell.t = "float" /\ cell.d > 0)

\* A name or text the header and row lines carry unharmed: no comma, no line
\* break, no blank at either end
Plain(s) == Strip(s) = s /\ \A j \in 1..Len(s) : s[j] \notin {",", "\n"}

PlainNames(data) == \A c \in 1..Len(data) : Plain(data[c].k)

\* C6, as claimed: for a store of integers and floats that are not whole, of
\* any number of columns and rows, zero columns included, from_csv after
\* to_csv succeeds and yields the same names, order, values and types.
C6_AsClaimed ==
    (RoundTripDone /\ \A p \in Positions(exported.data) :
                          IsNumber(exported.data[p[1]].v[p[2]])) =>
        /\ result.out.kind = "ok"
        /\ df.data = exported.data

\* C6, amended: the same for a store of at least one column whose names are
\* plain.  (The cells of the model are far below 2^53, the largest magnitude
\* up to which float() reads every integer exactly.)
C6_RoundTripNumeric ==
    (/\ RoundTripDone
     /\ exported.data # <<>>
     /\ PlainNames(exported.data)
     /\ \A p \in Positions(exported.data) : IsNumber(exported.data[p[1]].v[p[2]])) =>
        /\ result.out.kind = "ok"
        /\ df.data = exported.data

\* A store with an integer column and a float column has made the round trip
C6_Witness ==
    /\ RoundTripDone
    /\ result.out.kind = "ok"
    /\ Len(exported.data) = 2
    /\ \E p, q \in Positions(exported.data) :
          /\ exported.data[p[1]].v[p[2]].t = "int"
          /\ exported.data[q[1]].v[q[2]].t = "float"
          /\ exported.data[q[1]].v[q[2]].d > 0

\* A store with a text cell and a number cell
Mixed(data) ==
    /\ \E p \in Positions(data) : data[p[1]].v[p[2]].t = "str"
    /\ \E p \in Positions(data) : data[p[1]].v[p[2]].t \in {"int", "float"}

\* What a cell is to come back as: a text as itself, a whole number as an
\* integer, a number with a fractional part as a float
ComesBackAs(cell) ==
    IF cell.t = "float" /\ cell.d = 0 THEN IntCell(cell.n) ELSE cell

CameBack(before, after) ==
    /\ Keys(after) = Keys(before)
    /\ \A c \in 1..Len(before) : Len(after[c].v) = Len(before[c].v)
    /\ \A p \in Positions(before) :
          after[p[1]].v[p[2]] = ComesBackAs(before[p[1]].v[p[2]])

\* C7, as claimed: for every store of text and number cells, from_csv after
\* to_csv returns every text cell as the text it was, every cell exported as a
\* whole number as an integer and every cell exported as a fractional number
\* as a float.
C7_AsClaimed ==
    (RoundTripDone /\ Mixed(exported.data)) =>
        /\ result.out.kind = "ok"
        /\ CameBack(exported.data, df.data)

\* A text float() does not read, with no comma, no line break and no blank at
\* either end
PlainText(cell) == cell.t = "str" => (Plain(cell.s) /\ ~ParseFloat(cell.s).ok)

\* C7, amended: the same for a store whose names are plain and whose text
\* cells are plain and are not read as numbers by float().
C7_RoundTripMixed ==
    (/\ RoundTripDone
     /\ Mixed(exported.data)
     /\ PlainNames(exported.data)
     /\ \A p \in Positions(exported.data) : PlainText(exported.data[p[1]].v[p[2]])) =>
        /\ result.out.kind = "ok"
        /\ CameBack(exported.data, df.data)

\* A store with a text and a whole float has made the round trip
C7_Witness ==
    /\ RoundTripDone
    /\ result.out.kind = "ok"
    /\ \E p, q \in Positions(exported.data) :
          /\ exported.data[p[1]].v[p[2]].t = "str"
          /\ exported.data[p[1]].v[p[2]].s # <<>>
          /\ PlainText(exported.data[p[1]].v[p[2]])
          /\ exported.data[q[1]].v[q[2]].t = "float"
          /\ exported.data[q[1]].v[q[2]].d = 0

----------------------------------------------------------------------------
\* CSV import of ragged files

Fields(line) == Split(Strip(line), ",")

\* A data line of the file has fewer fields than its header line
Ragged(content) ==
    LET lines == FileLines(content)
    IN  /\ Len(lines) >= 2
        /\ \E j \in 2..Len(lines) : Len(Fields(lines[j])) < Len(Fields(lines[1]))

DistinctHeader(content) ==
    LET names == Fields(FileLines(content)[1])
    IN  \A a, b \in 1..Len(names) : names[a] = names[b] => a = b

RaisedMismatch ==
    /\ result.out.kind = "raise"
    /\ result.out.exc = "ValueError"
    /\ result.out.msg.what = "Length mismatch"

\* C8, as claimed: from_csv of a file with a data line of fewer fields than
\* the header raises the constructor's ValueError and returns no store.
C8_AsClaimed ==
    (result.op = "from_csv" /\ pc = "idle" /\ fs.exists /\ Ragged(fs.content)) =>
        RaisedMismatch

\* C8, amended: the same for a file whose header names are distinct; and
\* nothing is raised before the columns are handed to the constructor.
C8_RaggedImport ==
    /\ (/\ result.op = "from_csv"
        /\ pc = "idle"
        /\ fs.exists
        /\ Ragged(fs.content)
        /\ DistinctHeader(fs.content)) => RaisedMismatch
    /\ pc \in {"from_csv_lines", "from_csv_construct"} => result.out = Pending

\* from_csv has refused a ragged file whose second column came out short
C8_Witness ==
    /\ result.op = "from_csv"
    /\ pc = "idle"
    /\ fs.exists
    /\ Ragged(fs.content)
    /\ DistinctHeader(fs.content)
    /\ RaisedMismatch
    /\ result.out.msg.key = <<"b", "b">>
    /\ result.out.msg.length < result.out.msg.expected_length

----------------------------------------------------------------------------
\* Display rendering

\* The longest of the texts of a column: its name and its values
Widest(column) ==
    LET lens == {Len(column.k)} \cup {Len(Str(column.v[r])) : r \in 1..Len(column.v)}
    IN  CHOOSE w \in lens : \A x \in lens : w >= x

\* Where the cell of column c starts in a header or data line: after the
\* leading bar and blank and the cells before it, each with its " | "
RECURSIVE CellStart(_, _)
CellStart(data, c) ==
    IF c = 1 THEN 2 ELSE CellStart(data, c - 1) + Widest(data[c - 1]) + 3

\* The cell is the text, then blanks up to the width
LeftJustified(cell, text, width) ==
    /\ Len(cell) = width
    /\ Len(text) <= width
    /\ \A j \in 1..width : cell[j] = IF j <= Len(text) THEN text[j] ELSE " "

CellOf(line, data, c) ==
    SubSeq(line, CellStart(data, c) + 1, CellStart(data, c) + Widest(data[c]))

\* C9: str(df) of a store without columns is the fixed empty message; of a
\* store with columns it is row_count + 4 lines of one length: a top border,
\* the header, a separator, a line for each row in order, a bottom border;
\* and in the header and in every data line the cell of each column is the
\* name or the value left-justified and padded to the length of the longest
\* of the column's name and values.
C9_Display ==
    result.op = "__str__" =>
        IF df.data = <<>> THEN result.out.value = EmptyMessage
        ELSE LET lines == Split(result.out.value, "\n")
                 data == df.data
                 N == df._length
             IN  /\ Len(lines) = N + 4
                 /\ \A j \in 1..Len(lines) : Len(lines[j]) = Len(lines[1])
                 /\ Len(lines[1]) = CellStart(data, Len(data)) + Widest(data[Len(data)]) + 2
                 /\ lines[1][1] = BoxTopLeft
                 /\ lines[2][1] = BoxV
                 /\ lines[3][1] = BoxMidLeft
                 /\ lines[N + 4][1] = BoxBottomLeft
                 /\ \A c \in 1..Len(data) :
                       /\ LeftJustified(CellOf(lines[2], data, c), data[c].k, Widest(data[c]))
                       /\ \A r \in 1..N :
                             /\ lines[r + 3][1] = BoxV
                             /\ LeftJustified(CellOf(lines[r + 3], data, c),
                                              Str(data[c].v[r]), Widest(data[c]))
                       /\ \A j \in {1, 3, N + 4} :
                             CellOf(lines[j], data, c) = Repeat(BoxH, Widest(data[c]))

\* A table of two columns has been rendered, the first as wide as one of its
\* values, the second as wide as its name
C9_Witness ==
    /\ result.op = "__str__"
    /\ Len(df.data) = 2
    /\ df._length >= 1
    /\ Widest(df.data[1]) > Len(df.data[1].k)
    /\ \A r \in 1..df._length : Len(Str(df.data[2].v[r])) < Len(df.data[2].k)

----------------------------------------------------------------------------
\* File handles

InWith == pc \in {"to_csv_header", "to_csv_rows", "from_csv_header", "from_csv_lines"}

\* C10: the file handle is open only inside the with block of a to_csv or a
\* from_csv in progress: it is closed whenever no CSV call is in progress,
\* however the last one ended, and when from_csv hands its columns to the
\* constructor; and to_csv of a store without columns never opens the file.
C10_Handles ==
    /\ fh = "open" => InWith
    /\ pc = "idle" => fh = "closed"
    /\ pc = "from_csv_construct" => fh = "closed"
    /\ (df # NoStore /\ df.data = <<>>) => pc \notin {"to_csv_header", "to_csv_rows"}
    /\ (result.op = "to_csv" /\ pc = "idle" /\ df.data = <<>>) =>
          (result.out = Ok(None) /\ fh = "closed")

\* A to_csv has been ended by a failing write, after the header was written
C10_Witness ==
    /\ pc = "idle"
    /\ fh = "closed"
    /\ result.op = "to_csv"
    /\ result.out.kind = "raise"
    /\ result.out.msg = "write"
    /\ fs.content # <<>>

====
